---- MODULE Spec2Model ----
(***************************************************************************)
(* A model of src/src/plots.py: the load pipeline (read_parse_input with   *)
(* parse_status_dict, parse_sponsor_dict and split_tuplecol), the legacy   *)
(* loader read_old_dashboard, the day bucketing daywise, and the order in  *)
(* which __main__ runs them.                                               *)
(*                                                                         *)
(* Representation.                                                         *)
(*   - A DataFrame is [columns |-> {names}, rows |-> <<row>>], a row a     *)
(*     function from column name to cell; the order of the columns, which  *)
(*     nothing in the pipeline reads, is left out.                         *)
(*   - A dict is a function whose DOMAIN is its key set.                   *)
(*   - A Python str the code slices or sorts is the sequence of its        *)
(*     characters; messages and keys, never looked into, are TLA+ strings. *)
(*   - A cell of the nullable column TotalCount is <<v>>, or NaN (<<>>)    *)
(*     where the log line had no such field.                               *)
(*   - A timestamp is [y, m, d, h]; a date [y, m, d].                      *)
(***************************************************************************)
EXTENDS Integers, Sequences, FiniteSets, TLC

VARIABLES
    pc,          \* the statement of plots.py the run is at
    source,      \* ./data/log.txt: the lines of the log
    legacy,      \* ./data/dashboard_per_28082023.csv: the rows under the header
    df,          \* read_parse_input's frame (ef2024 once returned)
    df_23,       \* read_old_dashboard's frame (ef2023_daywise)
    df_daywise,  \* tripleplot's daywise(df)
    exit_msg,    \* the argument of sys.exit, <<>> while none was called
    saved        \* plt.savefig wrote ./out/Fig1.svg

vars == <<pc, source, legacy, df, df_23, df_daywise, exit_msg, saved>>

\* A name not bound to a frame yet.
None == [none |-> TRUE]

\* pandas' missing value in a numeric column.
NaN == <<>>

NoExit == <<>>

-----------------------------------------------------------------------------
(* Python's dict.get *)

\* dict.get(key, default)
Get(dict, key, default) == IF key \in DOMAIN dict THEN dict[key] ELSE default

-----------------------------------------------------------------------------
(* parse_status_dict, parse_sponsor_dict *)

\* parse_status_dict, were it to read the 2023 key partially_paid.
status_misspelt(status_dict) ==
    << Get(status_dict, "new", 0),
       Get(status_dict, "approved", 0),
       Get(status_dict, "partially_paid", 0),
       Get(status_dict, "paid", 0),
       Get(status_dict, "checked in", 0) >>

parse_status_dict(status_dict) ==
    << Get(status_dict, "new", 0),
       Get(status_dict, "approved", 0),
       Get(status_dict, "partially paid", 0),
       Get(status_dict, "paid", 0),
       Get(status_dict, "checked in", 0) >>

\* parse_sponsor_dict, were it to return sponsor before normal.
sponsor_swapped(sponsor_dict) ==
    << Get(sponsor_dict, "sponsor", 0),
       Get(sponsor_dict, "normal", 0),
       Get(sponsor_dict, "supersponsor", 0) >>

parse_sponsor_dict(sponsor_dict) ==
    << Get(sponsor_dict, "normal", 0),
       Get(sponsor_dict, "sponsor", 0),
       Get(sponsor_dict, "supersponsor", 0) >>

-----------------------------------------------------------------------------
(* split_tuplecol *)

\* df[col] = values: a new column is added, an existing one overwritten.
SetColumn(frame, col, values) ==
    [columns |-> frame.columns \cup {col},
     rows    |-> [r \in 1..Len(frame.rows) |->
                    [c \in DOMAIN frame.rows[r] \cup {col} |->
                        IF c = col THEN values[r] ELSE frame.rows[r][c]]]]

\* A drop that leaves the column in place.
KeepColumn(frame, col) == frame

\* df.drop(columns = [col])
DropColumn(frame, col) ==
    [columns |-> frame.columns \ {col},
     rows    |-> [r \in 1..Len(frame.rows) |->
                    [c \in DOMAIN frame.rows[r] \ {col} |-> frame.rows[r][c]]]]

\* The loop of lines 48-49, from output column i on.
RECURSIVE AddOutcols(_, _, _, _)
AddOutcols(frame, incol, outcols, i) ==
    IF i > Len(outcols) THEN frame
    ELSE AddOutcols(
            SetColumn(frame, outcols[i],
                      [r \in 1..Len(frame.rows) |-> frame.rows[r][incol][i]]),
            incol, outcols, i + 1)

\* The check, were it to accept tuples longer than the output names.
LengthsAtLeast(frame, incol, outcols) ==
    \A r \in 1..Len(frame.rows) : Len(frame.rows[r][incol]) >= Len(outcols)

\* all(df[incol].apply(len) == len(outcols))
AllLengthsMatch(frame, incol, outcols) ==
    \A r \in 1..Len(frame.rows) : Len(frame.rows[r][incol]) = Len(outcols)

MalformedEntry(incol) == <<"split.tuplecol: Malformed entry in column ", incol, ".">>

\* The frame after the call and sys.exit's argument (NoExit: the call returned).
split_tuplecol(frame, incol, outcols) ==
    IF ~ AllLengthsMatch(frame, incol, outcols)
    THEN [df |-> frame, exit |-> MalformedEntry(incol)]
    ELSE [df   |-> DropColumn(AddOutcols(frame, incol, outcols, 1), incol),
          exit |-> NoExit]

status_cols  == <<"new", "approved", "partial", "paid", "checkedin">>
sponsor_cols == <<"normal", "sponsor", "supersponsor">>

-----------------------------------------------------------------------------
(* Characters, str slicing and comparison *)

Digits == <<"0", "1", "2", "3", "4", "5", "6", "7", "8", "9">>

DigitChar(n)  == Digits[n + 1]
DigitValue(c) == (CHOOSE i \in 1..10 : Digits[i] = c) - 1

\* int() of a run of digits
RECURSIVE Num(_)
Num(s) == IF s = <<>> THEN 0
          ELSE 10 * Num(SubSeq(s, 1, Len(s) - 1)) + DigitValue(s[Len(s)])

\* Zero-padded decimal of width w, as %m, %d (2) and %Y (4) print it.
RECURSIVE Pad(_, _)
Pad(n, w) == IF w = 0 THEN <<>> ELSE Append(Pad(n \div 10, w - 1), DigitChar(n % 10))

\* ord() of the characters a formatted date holds.
CodePoint(c) == IF c = "/" THEN 47 ELSE 48 + DigitValue(c)

\* Python's str <: by code point, a proper prefix first.
RECURSIVE StrLess(_, _)
StrLess(a, b) ==
    IF b = <<>> THEN FALSE
    ELSE IF a = <<>> THEN TRUE
    ELSE IF Head(a) # Head(b) THEN CodePoint(Head(a)) < CodePoint(Head(b))
    ELSE StrLess(Tail(a), Tail(b))

\* x[:n]
Prefix(s, n) == SubSeq(s, 1, IF Len(s) < n THEN Len(s) ELSE n)

-----------------------------------------------------------------------------
(* pandas: to_datetime, strftime, DateOffset *)

\* pd.to_datetime of an ISO 8601 string: "YYYY-MM-DD", then optionally the
\* time of day from character 12 on ("THH:MM:SS..."); the hour is kept.
to_datetime(s) ==
    [y |-> Num(SubSeq(s, 1, 4)),
     m |-> Num(SubSeq(s, 6, 7)),
     d |-> Num(SubSeq(s, 9, 10)),
     h |-> IF Len(s) >= 13 THEN Num(SubSeq(s, 12, 13)) ELSE 0]

\* .dt.strftime('%m/%Y'): a key without the day.
strftime_month(ts) == Pad(ts.m, 2) \o <<"/">> \o Pad(ts.y, 4)

\* .dt.strftime('%m/%d/%Y')
strftime(ts) == Pad(ts.m, 2) \o <<"/">> \o Pad(ts.d, 2) \o <<"/">> \o Pad(ts.y, 4)

IsLeap(y) == (y % 4 = 0 /\ y % 100 # 0) \/ y % 400 = 0

DaysInMonth(y, m) ==
    IF m = 2 THEN (IF IsLeap(y) THEN 29 ELSE 28)
    ELSE IF m \in {4, 6, 9, 11} THEN 30 ELSE 31

\* A day added to the day of the month alone, past its end.
NextDayOfMonth(ts) == [ts EXCEPT !.d = ts.d + 1]

\* ts + pd.DateOffset(1): the same time on the next calendar day.
DateOffset1(ts) ==
    IF ts.d < DaysInMonth(ts.y, ts.m) THEN [ts EXCEPT !.d = ts.d + 1]
    ELSE IF ts.m < 12 THEN [ts EXCEPT !.d = 1, !.m = ts.m + 1]
    ELSE [ts EXCEPT !.d = 1, !.m = 1, !.y = ts.y + 1]

-----------------------------------------------------------------------------
(* pd.read_json(filename, lines = True) *)

\* A line of the log is the text of one JSON object, or text the parser
\* rejects: [parse |-> "ok", obj |-> the object] or [parse |-> the parser's
\* complaint, obj |-> <<>>].
IsBad(line) == line.parse # "ok"

HasBadLine(lines) == \E i \in 1..Len(lines) : IsBad(lines[i])

FirstBad(lines) == CHOOSE i \in 1..Len(lines) :
                      IsBad(lines[i]) /\ \A j \in 1..(i - 1) : ~ IsBad(lines[j])

\* The frame of a list of objects: a column per key that occurs, NaN where
\* an object lacks the key. The integer field TotalCount becomes a numeric
\* column; the timestamp stays the string it was written as.
FrameOf(objs) ==
    LET columns == UNION {DOMAIN objs[i] : i \in 1..Len(objs)}
    IN  [columns |-> columns,
         rows    |-> [i \in 1..Len(objs) |->
                        [c \in columns |->
                            IF c \notin DOMAIN objs[i] THEN NaN
                            ELSE IF c = "TotalCount" THEN <<objs[i][c]>>
                            ELSE objs[i][c]]]]

\* A reader that passes over the lines it cannot parse.
read_json_skip_bad(lines) ==
    [err |-> "",
     df  |-> FrameOf([i \in 1..Len(SelectSeq(lines, LAMBDA l : ~ IsBad(l))) |->
                        SelectSeq(lines, LAMBDA l : ~ IsBad(l))[i].obj])]

\* The frame read, or the ValueError raised (err, "" when none is).
read_json(lines) ==
    IF HasBadLine(lines)
    THEN [err |-> lines[FirstBad(lines)].parse, df |-> None]
    ELSE [err |-> "", df |-> FrameOf([i \in 1..Len(lines) |-> lines[i].obj])]

LoadError(e) == <<"read_parse_input: Error while loading source data: ", e>>

-----------------------------------------------------------------------------
(* daywise *)

\* The keys of a groupby, sorted as groupby(sort = True) sorts str keys.
RECURSIVE SortStr(_)
SortStr(S) ==
    IF S = {} THEN <<>>
    ELSE LET least == CHOOSE a \in S : \A b \in S \ {a} : StrLess(a, b)
         IN  <<least>> \o SortStr(S \ {least})

\* GroupBy.first of one column: the first cell that is not null.
RECURSIVE First(_)
First(cells) ==
    IF cells = <<>> THEN NaN
    ELSE IF Head(cells) # NaN THEN Head(cells)
    ELSE First(Tail(cells))

\* GroupBy.last of one column: the last cell that is not null, NaN if none.
RECURSIVE Last(_)
Last(cells) ==
    IF cells = <<>> THEN NaN
    ELSE IF cells[Len(cells)] # NaN THEN cells[Len(cells)]
    ELSE Last(SubSeq(cells, 1, Len(cells) - 1))

\* np.arange(0, len(out)) - 3
AnchorOffset == 3

\* Lines 100-106. Of the columns agg("last") reduces, only TotalCount is
\* kept by the .loc that follows, so only it is computed.
daywise(frame) ==
    LET n       == Len(frame.rows)
        Date    == [r \in 1..n |-> strftime(frame.rows[r]["CurrentDateTimeUtc"])]
        keys    == SortStr({Date[r] : r \in 1..n})
        members(k) == SelectSeq([r \in 1..n |-> r], LAMBDA r : Date[r] = k)
        totals(k)  == [j \in 1..Len(members(k)) |->
                         frame.rows[members(k)[j]]["TotalCount"]]
    IN  [columns |-> {"Date", "TotalCount", "idx"},
         rows    |-> [i \in 1..Len(keys) |->
                        [Date       |-> keys[i],
                         TotalCount |-> Last(totals(keys[i])),
                         idx        |-> (i - 1) - AnchorOffset]]]

-----------------------------------------------------------------------------
(* read_old_dashboard *)

\* df_23.idx -= 4
IndexCorrection == 4

\* rows: the CSV's data rows as read_csv parses them, seven cells each:
\* idx, date (a str), total, unapproved, approved, partially_paid, paid.
read_old_dashboard(rows) ==
    [columns |-> {"idx", "date", "total", "unapproved", "approved",
                  "partially_paid", "paid"},
     rows    |-> [r \in 1..Len(rows) |->
                    [idx            |-> rows[r][1] - IndexCorrection,
                     date           |-> DateOffset1(to_datetime(Prefix(rows[r][2], 10))),
                     total          |-> rows[r][3],
                     unapproved     |-> rows[r][4],
                     approved       |-> rows[r][5],
                     partially_paid |-> rows[r][6],
                     paid           |-> rows[r][7]]]]

-----------------------------------------------------------------------------
(* The run: __main__ (lines 386-397) *)

NeededColumns == {"CurrentDateTimeUtc", "TotalCount", "Status", "Sponsor"}

\* Lines 58-61: read the log; a ValueError ends the run through sys.exit.
ReadJson ==
    /\ pc = "read_json"
    /\ LET r == read_json(source)
       IN  IF r.err # ""
           THEN /\ exit_msg' = LoadError(r.err)
                /\ pc' = "exit"
                /\ UNCHANGED df
           ELSE /\ df' = r.df
                /\ pc' = "parse_columns"
                /\ UNCHANGED exit_msg
    /\ UNCHANGED <<source, legacy, df_23, df_daywise, saved>>

\* Lines 62-69: keep the four columns (a KeyError, which nothing catches,
\* when one is no column of the frame), parse the timestamps and turn the
\* two dict columns into tuples.
ParseColumns ==
    /\ pc = "parse_columns"
    /\ IF ~ (NeededColumns \subseteq df.columns)
       THEN /\ pc' = "crash"
            /\ UNCHANGED df
       ELSE /\ df' = [columns |-> NeededColumns,
                      rows    |-> [r \in 1..Len(df.rows) |->
                         [CurrentDateTimeUtc |-> to_datetime(df.rows[r]["CurrentDateTimeUtc"]),
                          TotalCount         |-> df.rows[r]["TotalCount"],
                          Status             |-> parse_status_dict(df.rows[r]["Status"]),
                          Sponsor            |-> parse_sponsor_dict(df.rows[r]["Sponsor"])]]]
            /\ pc' = "split_status"
    /\ UNCHANGED <<source, legacy, df_23, df_daywise, exit_msg, saved>>

\* Lines 74-76.
SplitStatus ==
    /\ pc = "split_status"
    /\ LET r == split_tuplecol(df, "Status", status_cols)
       IN  /\ df' = r.df
           /\ exit_msg' = r.exit
           /\ pc' = IF r.exit # NoExit THEN "exit" ELSE "split_sponsor"
    /\ UNCHANGED <<source, legacy, df_23, df_daywise, saved>>

\* Lines 77-81: the second split, and read_parse_input returns df.
SplitSponsor ==
    /\ pc = "split_sponsor"
    /\ LET r == split_tuplecol(df, "Sponsor", sponsor_cols)
       IN  /\ df' = r.df
           /\ exit_msg' = r.exit
           /\ pc' = IF r.exit # NoExit THEN "exit" ELSE "read_old_dashboard"
    /\ UNCHANGED <<source, legacy, df_23, df_daywise, saved>>

\* Line 395.
ReadOldDashboard ==
    /\ pc = "read_old_dashboard"
    /\ df_23' = read_old_dashboard(legacy)
    /\ pc' = "tripleplot"
    /\ UNCHANGED <<source, legacy, df, df_daywise, exit_msg, saved>>

\* Line 397: tripleplot adds the column totals (line 125), buckets the frame
\* by day (line 248) and saves the figure (line 382).
Tripleplot ==
    /\ pc = "tripleplot"
    /\ LET with_totals ==
             SetColumn(df, "totals",
                 [r \in 1..Len(df.rows) |->
                     df.rows[r]["new"] + df.rows[r]["approved"] + df.rows[r]["partial"]
                       + df.rows[r]["paid"] + df.rows[r]["checkedin"]])
       IN  /\ df' = with_totals
           /\ df_daywise' = daywise(with_totals)
    /\ saved' = TRUE
    /\ pc' = "done"
    /\ UNCHANGED <<source, legacy, df_23, exit_msg>>

Next == ReadJson \/ ParseColumns \/ SplitStatus \/ SplitSponsor
            \/ ReadOldDashboard \/ Tripleplot

-----------------------------------------------------------------------------
(* Inputs *)

MaxLines   == 2   \* lines of the log, when the lines vary in their counts
MaxSamples == 3   \* lines of the log, when the lines vary in their timestamps
MaxCount   == 2   \* largest count a status or sponsor dict holds
MaxLegacy  == 2   \* data rows of the legacy CSV
MaxRows    == 2   \* rows of a frame handed to split_tuplecol directly

SeqsUpTo(S, n) == UNION {[1..k -> S] : k \in 1..n}

Stamp(y, m, d, h) == [y |-> y, m |-> m, d |-> d, h |-> h]

\* A timestamp as the logger writes it: "YYYY-MM-DDTHH:00:00Z".
IsoString(ts) ==
    Pad(ts.y, 4) \o <<"-">> \o Pad(ts.m, 2) \o <<"-">> \o Pad(ts.d, 2)
        \o <<"T">> \o Pad(ts.h, 2) \o <<":", "0", "0", ":", "0", "0", "Z">>

\* A well-formed line; Id stands for the fields the pipeline does not keep.
LogLine(ts, total, status, sponsor) ==
    [parse |-> "ok",
     obj   |-> [Id |-> 1, CurrentDateTimeUtc |-> IsoString(ts), TotalCount |-> total,
                Status |-> status, Sponsor |-> sponsor]]

\* A well-formed line whose object has no TotalCount.
LogLineNoTotal(ts, status, sponsor) ==
    [parse |-> "ok",
     obj   |-> [Id |-> 1, CurrentDateTimeUtc |-> IsoString(ts),
                Status |-> status, Sponsor |-> sponsor]]

\* Lines the JSON parser rejects, by its complaint.
BadLines == {[parse |-> "Expected object or value", obj |-> <<>>],
             [parse |-> "Trailing data", obj |-> <<>>]}

\* Every dict over a subset of the keys, with counts 0..MaxCount.
Dicts(keys) == UNION {[K -> 0..MaxCount] : K \in SUBSET keys}

\* The status keys the code reads, and the 2023 spelling it does not.
StatusKeys  == {"new", "approved", "partially paid", "paid", "checked in",
                "partially_paid"}
SponsorKeys == {"normal", "sponsor", "supersponsor", "ultrasponsor"}

Status10  == [new |-> 3, paid |-> 7]
Status7   == [new |-> 3, approved |-> 4]
Sponsor10 == [normal |-> 5, sponsor |-> 5]
Sponsor9  == [normal |-> 4, sponsor |-> 5]

Noon == Stamp(2024, 1, 15, 12)

SampleLine == LogLine(Noon, 10, Status10, Sponsor10)

SampleLegacy == << <<0, IsoString(Stamp(2023, 1, 5, 0)), 100, 1, 2, 3, 4>> >>

\* The state __main__ starts in, for a log and a legacy CSV.
Start(lines, rows) ==
    /\ pc = "read_json"
    /\ source = lines
    /\ legacy = rows
    /\ df = None
    /\ df_23 = None
    /\ df_daywise = None
    /\ exit_msg = NoExit
    /\ saved = FALSE

\* Logs whose lines vary in their counts: a total of 10 or none, a status
\* and a sponsor dict that add up to it or do not; and lines that do not parse.
CountLines ==
    {LogLine(ts, 10, st, sp) : ts \in {Noon, Stamp(2024, 1, 15, 18)},
                               st \in {Status10, Status7},
                               sp \in {Sponsor10, Sponsor9}}
    \cup {LogLineNoTotal(Noon, st, sp) : st \in {Status10, Status7},
                                         sp \in {Sponsor10, Sponsor9}}
    \cup BadLines

Init == \E lines \in SeqsUpTo(CountLines, MaxLines) : Start(lines, SampleLegacy)

Spec == Init /\ [][Next]_vars

\* Logs whose lines vary in their timestamps and totals: two samples of one
\* day, days of two months and of two years, in any order of the lines.
Stamps == {Stamp(2023, 12, 31, 10), Stamp(2024, 1, 1, 8), Stamp(2024, 1, 1, 20),
           Stamp(2024, 1, 31, 12), Stamp(2024, 2, 1, 9)}

SampleLines ==
    {LogLine(ts, total, [new |-> total], [normal |-> total]) :
        ts \in Stamps, total \in {4, 9}}
    \cup {LogLineNoTotal(ts, [new |-> 4], [normal |-> 4]) : ts \in Stamps}
    \cup {[parse |-> "Trailing data", obj |-> <<>>]}

InitDaywise == \E lines \in SeqsUpTo(SampleLines, MaxSamples) : Start(lines, SampleLegacy)

SpecDaywise == InitDaywise /\ [][Next]_vars

\* One-line logs whose status dict, or whose sponsor dict, is any dict.
DictLines ==
    {LogLine(Noon, 10, st, Sponsor10) : st \in Dicts(StatusKeys)}
    \cup {LogLine(Noon, 10, Status10, sp) : sp \in Dicts(SponsorKeys)}
    \cup {LogLine(Noon, 5, [new |-> 5], [sponsor |-> 5])}
    \cup BadLines

InitNormalize == \E line \in DictLines : Start(<<line>>, SampleLegacy)

SpecNormalize == InitNormalize /\ [][Next]_vars

\* Legacy CSVs: date strings with and without a time of day, at the end of
\* a month, of February in a leap year and not, and of a year.
Chars(time) == <<"T">> \o Pad(time, 2) \o <<":", "5", "9", ":", "5", "9">>

LegacyDates ==
    {IsoString(Stamp(2023, 1, 5, 0)),
     Prefix(IsoString(Stamp(2023, 4, 30, 0)), 10),
     Prefix(IsoString(Stamp(2023, 2, 28, 0)), 10) \o Chars(23),
     Prefix(IsoString(Stamp(2024, 2, 28, 0)), 10) \o Chars(23),
     Prefix(IsoString(Stamp(2024, 2, 29, 0)), 10),
     Prefix(IsoString(Stamp(2023, 12, 31, 0)), 10) \o Chars(23)}

LegacyRows == {<<i, date, 100 + i, 1, 2, 3, 4>> : i \in {0, 7}, date \in LegacyDates}

InitLegacy ==
    \E lines \in {<<SampleLine>>, <<SampleLine, CHOOSE b \in BadLines : TRUE>>} :
    \E rows \in {<<>>} \cup SeqsUpTo(LegacyRows, MaxLegacy) :
        Start(lines, rows)

SpecLegacy == InitLegacy /\ [][Next]_vars

\* split_tuplecol on its own: frames whose tuple cells have any of several
\* lengths, handed to the two calls of lines 74-79.
StatusCells  == {<<1, 2, 3, 4, 5>>, <<0, 0, 7, 0, 3>>, <<1, 2, 3, 4>>, <<1, 2, 3, 4, 5, 6>>}
SponsorCells == {<<1, 2, 3>>, <<9, 0, 1>>, <<1, 2>>, <<>>}

TupleRows ==
    {[CurrentDateTimeUtc |-> Noon, TotalCount |-> <<10>>, Status |-> st, Sponsor |-> sp] :
        st \in StatusCells, sp \in SponsorCells}

InitSplit ==
    \E rows \in {<<>>} \cup SeqsUpTo(TupleRows, MaxRows) :
        /\ pc = "split_status"
        /\ source = <<>>
        /\ legacy = <<>>
        /\ df = [columns |-> NeededColumns, rows |-> rows]
        /\ df_23 = None
        /\ df_daywise = None
        /\ exit_msg = NoExit
        /\ saved = FALSE

NextSplit == SplitStatus \/ SplitSponsor

SpecSplit == InitSplit /\ [][NextSplit]_vars

-----------------------------------------------------------------------------
(* Properties *)

Returned == pc \in {"read_old_dashboard", "tripleplot", "done"}

Rows(frame) == 1..Len(frame.rows)

\* The day number of a calendar date, from the Gregorian rules.
DaysBeforeMonth == <<0, 31, 59, 90, 120, 151, 181, 212, 243, 273, 304, 334>>

Ordinal(date) ==
    365 * (date.y - 1) + ((date.y - 1) \div 4) - ((date.y - 1) \div 100)
        + ((date.y - 1) \div 400)
        + DaysBeforeMonth[date.m] + (IF date.m > 2 /\ IsLeap(date.y) THEN 1 ELSE 0)
        + date.d

IsCalendarDate(date) ==
    /\ date.m \in 1..12
    /\ date.d \in 1..(IF date.m = 12 THEN 31
                      ELSE DaysBeforeMonth[date.m + 1] - DaysBeforeMonth[date.m]
                           + (IF date.m = 2 /\ IsLeap(date.y) THEN 1 ELSE 0))

\* The calendar date a key "mm/dd/yyyy" of daywise's output names.
DateOfKey(key) ==
    [y |-> Num(SubSeq(key, 7, 10)), m |-> Num(SubSeq(key, 1, 2)),
     d |-> Num(SubSeq(key, 4, 5))]

SameDay(ts, date) == ts.y = date.y /\ ts.m = date.m /\ ts.d = date.d

Hours(ts) == 24 * Ordinal(ts) + ts.h

Greatest(S) == CHOOSE x \in S : \A y \in S : y <= x

RECURSIVE SumSeq(_)
SumSeq(s) == IF s = <<>> THEN 0 ELSE Head(s) + SumSeq(Tail(s))

\* The rows of the frame are in ascending order of timestamp.
Ascending ==
    \A r \in 1..(Len(df.rows) - 1) :
        Hours(df.rows[r]["CurrentDateTimeUtc"]) <= Hours(df.rows[r + 1]["CurrentDateTimeUtc"])

\* C1: every Dataset read_parse_input returns has, in every row, status
\* columns that add up to TotalCount and sponsor columns that add up to
\* TotalCount (a log with a row that does not is never returned).
ReturnedDatasetIsConsistent ==
    Returned =>
        \A r \in Rows(df) :
            /\ df.rows[r]["TotalCount"] =
                   << df.rows[r]["new"] + df.rows[r]["approved"] + df.rows[r]["partial"]
                        + df.rows[r]["paid"] + df.rows[r]["checkedin"] >>
            /\ df.rows[r]["TotalCount"] =
                   << df.rows[r]["normal"] + df.rows[r]["sponsor"]
                        + df.rows[r]["supersponsor"] >>

RecognizedStatus  == <<"new", "approved", "partially paid", "paid", "checked in">>
RecognizedSponsor == <<"normal", "sponsor", "supersponsor">>

\* entry k of a normalized tuple: the count under the k-th recognized key,
\* 0 where the dict has no such key.
Normalizes(dict, recognized, tuple) ==
    /\ Len(tuple) = Len(recognized)
    /\ \A k \in 1..Len(recognized) :
          tuple[k] = IF recognized[k] \in DOMAIN dict THEN dict[recognized[k]] ELSE 0

\* C2: parse_status_dict turns every status dict into the 5-tuple of the
\* counts under new, approved, partially paid, paid, checked in, in that
\* order, 0 for a missing key, whatever other keys the dict holds; and a
\* log that parses is never ended over a status dict.
StatusNormalized ==
    /\ pc = "split_status" =>
          \A r \in Rows(df) :
              /\ Len(df.rows[r]["Status"]) = 5
              /\ Normalizes(source[r].obj["Status"], RecognizedStatus, df.rows[r]["Status"])
    /\ ~ HasBadLine(source) => pc \notin {"exit", "crash"}

StatusNormalizedWitness ==
    /\ pc = "split_status"
    /\ DOMAIN source[1].obj["Status"] = {"new", "partially_paid"}
    /\ source[1].obj["Status"]["new"] = 2
    /\ source[1].obj["Status"]["partially_paid"] = 1
    /\ df.rows[1]["Status"] = <<2, 0, 0, 0, 0>>

\* C3: parse_sponsor_dict turns every sponsor dict into the 3-tuple
\* (normal, sponsor, supersponsor), 0 for an absent tier, whatever other
\* keys the dict holds.
SponsorNormalized ==
    pc = "split_status" =>
        \A r \in Rows(df) :
            /\ Len(df.rows[r]["Sponsor"]) = 3
            /\ Normalizes(source[r].obj["Sponsor"], RecognizedSponsor, df.rows[r]["Sponsor"])

SponsorNormalizedWitness ==
    /\ pc = "split_status"
    /\ DOMAIN source[1].obj["Sponsor"] = {"sponsor"}
    /\ source[1].obj["Sponsor"]["sponsor"] = 5
    /\ df.rows[1]["Sponsor"] = <<0, 5, 0>>

\* C4: daywise returns one row per distinct calendar date of its input, and
\* the rows' idx are -3, -2, ... in steps of 1.
DaywiseOneRowPerDate ==
    pc = "done" =>
        /\ Len(df_daywise.rows) =
               Cardinality({ <<df.rows[r]["CurrentDateTimeUtc"].y,
                               df.rows[r]["CurrentDateTimeUtc"].m,
                               df.rows[r]["CurrentDateTimeUtc"].d>> : r \in Rows(df) })
        /\ Len(df_daywise.rows) >= 1
        /\ df_daywise.rows[1].idx = 0 - 3
        /\ \A i \in 1..(Len(df_daywise.rows) - 1) :
              df_daywise.rows[i + 1].idx = df_daywise.rows[i].idx + 1

DaywiseOneRowPerDateWitness ==
    /\ pc = "done"
    /\ Len(df.rows) = 3
    /\ Len(df_daywise.rows) = 2
    /\ df_daywise.rows[2].idx = -2

\* C5: in daywise's output the row of the earlier calendar date has the
\* smaller idx, whatever months and years the dates fall in (stated of the
\* logs the logger writes, whose lines are in ascending order of timestamp).
DaywiseChronological ==
    (pc = "done" /\ Ascending) =>
        \A i, j \in Rows(df_daywise) :
            Ordinal(DateOfKey(df_daywise.rows[i].Date))
                < Ordinal(DateOfKey(df_daywise.rows[j].Date))
            => df_daywise.rows[i].idx < df_daywise.rows[j].idx

\* C6, as claimed: for every date, daywise reports the TotalCount of a row
\* whose timestamp is the latest of that date, whatever the order of the
\* rows (every row carrying a TotalCount).
DaywiseKeepsLatestTimestamp ==
    (pc = "done" /\ \A r \in Rows(df) : df.rows[r]["TotalCount"] # NaN) =>
        \A o \in Rows(df_daywise) :
            \E r \in Rows(df) :
                /\ SameDay(df.rows[r]["CurrentDateTimeUtc"], DateOfKey(df_daywise.rows[o].Date))
                /\ \A q \in Rows(df) :
                      SameDay(df.rows[q]["CurrentDateTimeUtc"],
                              DateOfKey(df_daywise.rows[o].Date))
                      => Hours(df.rows[q]["CurrentDateTimeUtc"])
                             <= Hours(df.rows[r]["CurrentDateTimeUtc"])
                /\ df_daywise.rows[o]["TotalCount"] = df.rows[r]["TotalCount"]

\* The rows of the input that fall on the date of output row o and carry a
\* TotalCount.
Counted(o) ==
    {r \in Rows(df) :
        /\ SameDay(df.rows[r]["CurrentDateTimeUtc"], DateOfKey(df_daywise.rows[o].Date))
        /\ df.rows[r]["TotalCount"] # NaN}

\* C6, amended: every date of the input has a row in the output, which holds
\* the TotalCount of the row that comes last in the input among the rows of
\* that date that carry one (NaN when none does); when the input is in
\* ascending order of timestamp and every row carries a TotalCount, that is
\* a row with the latest timestamp of its date.
DaywiseKeepsLastInInputOrder ==
    pc = "done" =>
        /\ \A r \in Rows(df) : \E o \in Rows(df_daywise) :
              SameDay(df.rows[r]["CurrentDateTimeUtc"], DateOfKey(df_daywise.rows[o].Date))
        /\ \A o \in Rows(df_daywise) :
              df_daywise.rows[o]["TotalCount"] =
                  IF Counted(o) = {} THEN NaN
                  ELSE df.rows[Greatest(Counted(o))]["TotalCount"]
        /\ Ascending => DaywiseKeepsLatestTimestamp

DaywiseKeepsLastWitness ==
    /\ pc = "done"
    /\ \E r, q \in Rows(df) :
          /\ r < q
          /\ df.rows[r]["CurrentDateTimeUtc"] = Stamp(2024, 1, 1, 8)
          /\ df.rows[q]["CurrentDateTimeUtc"] = Stamp(2024, 1, 1, 20)
          /\ df.rows[r]["TotalCount"] = <<4>>
          /\ df.rows[q]["TotalCount"] = <<9>>
    /\ \E o \in Rows(df_daywise) :
          /\ df_daywise.rows[o].Date = strftime(Stamp(2024, 1, 1, 0))
          /\ df_daywise.rows[o]["TotalCount"] = <<9>>

\* The two calls of split_tuplecol: where the run is, the tuple column and
\* the output names.
SplitCalls == {<<"split_status", "Status", status_cols>>,
               <<"split_sponsor", "Sponsor", sponsor_cols>>}

WellFormed(call) ==
    \A r \in Rows(df) : Len(df.rows[r][call[2]]) = Len(call[3])

\* C7: split_tuplecol exits with a message naming the column when a cell's
\* length differs from the number of output names, the frame as it was; and
\* does not exit when every cell has that length.
SplitExitsOnMalformed ==
    [][ \A call \in SplitCalls :
          pc = call[1] =>
             IF WellFormed(call)
             THEN pc' # "exit" /\ exit_msg' = NoExit
             ELSE /\ pc' = "exit"
                  /\ Len(exit_msg') = 3
                  /\ exit_msg'[2] = call[2]
                  /\ df' = df ]_vars

SplitExitsOnMalformedWitness ==
    /\ pc = "exit"
    /\ exit_msg = <<"split.tuplecol: Malformed entry in column ", "Sponsor", ".">>
    /\ Len(df.rows) = 2
    /\ df.rows[1]["Sponsor"] = <<1, 2, 3>>
    /\ df.rows[2]["Sponsor"] = <<1, 2>>
    /\ "new" \in df.columns

\* C8: on a well-formed frame split_tuplecol removes the tuple column, puts
\* position k of every tuple into output column k, and the output columns of
\* a row add up to the sum of its tuple.
SplitKeepsSums ==
    [][ \A call \in SplitCalls :
          (pc = call[1] /\ WellFormed(call)) =>
             /\ df'.columns = (df.columns \ {call[2]}) \cup {call[3][k] : k \in 1..Len(call[3])}
             /\ call[2] \notin df'.columns
             /\ Len(df'.rows) = Len(df.rows)
             /\ \A r \in Rows(df) :
                   /\ DOMAIN df'.rows[r] = df'.columns
                   /\ \A k \in 1..Len(call[3]) :
                         df'.rows[r][call[3][k]] = df.rows[r][call[2]][k]
                   /\ SumSeq([k \in 1..Len(call[3]) |-> df'.rows[r][call[3][k]]])
                          = SumSeq(df.rows[r][call[2]]) ]_vars

SplitKeepsSumsWitness ==
    /\ pc = "read_old_dashboard"
    /\ Len(df.rows) = 2
    /\ df.columns = {"CurrentDateTimeUtc", "TotalCount", "new", "approved", "partial",
                     "paid", "checkedin", "normal", "sponsor", "supersponsor"}
    /\ df.rows[1]["partial"] = 7
    /\ df.rows[2]["supersponsor"] = 3

\* C9: a log with a line that does not parse ends the run in sys.exit with
\* the parser's complaint in the message; no frame is bound, neither loader
\* result nor day buckets, and no figure is saved.
ParseFailureIsFatal ==
    (HasBadLine(source) /\ pc # "read_json") =>
        /\ pc = "exit"
        /\ exit_msg = <<"read_parse_input: Error while loading source data: ",
                        source[FirstBad(source)].parse>>
        /\ df = None
        /\ df_23 = None
        /\ df_daywise = None
        /\ ~ saved

ParseFailureIsFatalWitness ==
    /\ pc = "exit"
    /\ Len(source) = 2
    /\ source[1].parse = "ok"
    /\ source[2].parse = "Trailing data"
    /\ df = None

\* C10: read_old_dashboard returns one row per data row of the CSV, in
\* order, its date the day after the date the first ten characters of the
\* source string name (at midnight), its idx the source idx minus 4, and the
\* five count columns as they were.
LegacyShifted ==
    pc \in {"tripleplot", "done"} =>
        /\ Len(df_23.rows) = Len(legacy)
        /\ \A r \in Rows(df_23) :
              /\ df_23.rows[r].idx = legacy[r][1] - 4
              /\ IsCalendarDate(df_23.rows[r].date)
              /\ Ordinal(df_23.rows[r].date) =
                     Ordinal([y |-> Num(SubSeq(legacy[r][2], 1, 4)),
                              m |-> Num(SubSeq(legacy[r][2], 6, 7)),
                              d |-> Num(SubSeq(legacy[r][2], 9, 10))]) + 1
              /\ df_23.rows[r].date.h = 0
              /\ df_23.rows[r].total = legacy[r][3]
              /\ df_23.rows[r].unapproved = legacy[r][4]
              /\ df_23.rows[r].approved = legacy[r][5]
              /\ df_23.rows[r].partially_paid = legacy[r][6]
              /\ df_23.rows[r].paid = legacy[r][7]

LegacyShiftedWitness ==
    /\ pc = "tripleplot"
    /\ Len(legacy) = 2
    /\ legacy[1][1] = 7
    /\ Len(legacy[1][2]) > 10
    /\ df_23.rows[1].idx = 3
    /\ df_23.rows[1].date = Stamp(2024, 1, 1, 0)
    /\ df_23.rows[2].date = Stamp(2024, 3, 1, 0)

====
